---- MODULE Spec2Model ----
(***************************************************************************)
(* Model of src/services/videoProcessor.ts: the FFmpeg.wasm engine         *)
(* singleton (loadFFmpeg), the duration allocator                          *)
(* (calculateClipDurations), the output geometry, the xfade filter chain   *)
(* and the composeVideos pipeline.                                         *)
(*                                                                         *)
(* Time is counted in tenths of a second (the sliders of the UI step by    *)
(* 0.1 s and 1 s); a computed duration or offset is an exact rational      *)
(* <<num, den>> in tenths.  toFixed(2) and Math.round are modelled as the  *)
(* roundings they perform, on the exact value.                             *)
(*                                                                         *)
(* JavaScript runs one task at a time: a model action is the code that     *)
(* runs between two awaits (a call's synchronous prefix, or the            *)
(* continuation that runs when an awaited promise settles).                *)
(***************************************************************************)
EXTENDS Integers, Sequences, FiniteSets

(***************************************************************************)
(* Bounds of the model                                                     *)
(***************************************************************************)
\* longest duration list given to the allocator in SpecAlloc
MaxAllocLen == 3
\* deleteFile rejections per run
MaxDeleteFailures == 2
\* longest clip list of a caller in SpecConc
MaxConcClips == 2
\* Spec: the longest clip list that is called with every extension, setting
\* and duration pattern; longer lists are .mp4 files called with CallSettings
\* and two of the patterns
MaxVariedClips == 3

(***************************************************************************)
(* Program constants                                                       *)
(***************************************************************************)
\* videoProcessor.ts:197  if (files.length > 10) throw
ClipLimit == 10
\* videoProcessor.ts:165  Math.max(clipDur, 1.5), in tenths of a second
FloorTenths == 15
\* videoProcessor.ts:206,209  Math.min(settings.output_width, 720)
MaxWidth == 720

(***************************************************************************)
(* Exact rationals <<num, den>>, den > 0, in lowest terms                  *)
(***************************************************************************)
RECURSIVE GCD(_, _)
GCD(a, b) ==
  IF b = 0 THEN a ELSE GCD(b, a % b)

Abs(x) ==
  IF x < 0 THEN -x ELSE x

Rat(num, den) ==
  LET g == GCD(Abs(num), den)
  IN  IF g = 0 THEN <<0, 1>> ELSE <<num \div g, den \div g>>

RInt(k) ==
  <<k, 1>>

RLe(a, b) ==
  a[1] * b[2] <= b[1] * a[2]

RLt(a, b) ==
  a[1] * b[2] < b[1] * a[2]

RMin(a, b) ==
  IF RLe(a, b) THEN a ELSE b

RMax(a, b) ==
  IF RLe(a, b) THEN b ELSE a

RAdd(a, b) ==
  Rat(a[1] * b[2] + b[1] * a[2], a[2] * b[2])

RSub(a, b) ==
  Rat(a[1] * b[2] - b[1] * a[2], a[2] * b[2])

\* Math.round(p / q) for q > 0: nearest integer, a half rounds up
RoundDiv(p, q) ==
  (2 * p + q) \div (2 * q)

\* x.toFixed(2) of a value in tenths of a second: the integer number of
\* hundredths of a second that the printed text denotes
ToFixed2(r) ==
  RoundDiv(10 * r[1], r[2])

RECURSIVE SumSeq(_)
SumSeq(s) ==
  IF s = <<>> THEN 0 ELSE Head(s) + SumSeq(Tail(s))

\* the sum of a sequence of rationals
RECURSIVE RSumSeq(_)
RSumSeq(s) ==
  IF s = <<>> THEN RInt(0) ELSE RAdd(Head(s), RSumSeq(Tail(s)))

(***************************************************************************)
(* calculateClipDurations (videoProcessor.ts:144-168)                      *)
(***************************************************************************)
\* ClipDur without the Math.max of line 165
ClipDurNoFloor(dur, totalOriginal, availableTime) ==
  RMin(Rat(dur * availableTime, totalOriginal), RInt(dur))

ClipDur(dur, totalOriginal, availableTime) ==
  LET clipDur0 == Rat(dur * availableTime, totalOriginal)
      clipDur1 == RMin(clipDur0, RInt(dur))
  IN  RMax(clipDur1, RInt(FloorTenths))

\* calculateClipDurations followed by a pass that rescales the clamped
\* durations so that they add up to availableTime again
calculateClipDurationsRenormalized(originalDurations, targetDuration, transitionDuration) ==
  LET n == Len(originalDurations)
      availableTime == targetDuration + (n - 1) * transitionDuration
      totalOriginal == SumSeq(originalDurations)
      clamped == [k \in 1..n |->
                    ClipDur(originalDurations[k], totalOriginal, availableTime)]
      total == RSumSeq(clamped)
  IN  IF n = 0 THEN <<>>
      ELSE IF totalOriginal <= 0
           THEN [k \in 1..n |-> Rat(availableTime, n)]
           ELSE [k \in 1..n |->
                   Rat(clamped[k][1] * availableTime * total[2],
                       clamped[k][2] * total[1])]

\* calculateClipDurations with a transition counted for every clip:
\* availableTime = targetDuration + n * transitionDuration
calculateClipDurationsOverlapPerClip(originalDurations, targetDuration, transitionDuration) ==
  LET n == Len(originalDurations)
      availableTime == targetDuration + n * transitionDuration
      totalOriginal == SumSeq(originalDurations)
  IN  IF n = 0 THEN <<>>
      ELSE IF totalOriginal <= 0
           THEN [k \in 1..n |-> Rat(availableTime, n)]
           ELSE [k \in 1..n |->
                   ClipDur(originalDurations[k], totalOriginal, availableTime)]

calculateClipDurations(originalDurations, targetDuration, transitionDuration) ==
  LET n == Len(originalDurations)
      totalTransitionTime == (n - 1) * transitionDuration
      availableTime == targetDuration + totalTransitionTime
      totalOriginal == SumSeq(originalDurations)
  IN  IF n = 0 THEN <<>>
      ELSE IF totalOriginal <= 0
           THEN [k \in 1..n |-> Rat(availableTime, n)]
           ELSE [k \in 1..n |->
                   ClipDur(originalDurations[k], totalOriginal, availableTime)]

(***************************************************************************)
(* Output geometry (videoProcessor.ts:205-210)                             *)
(***************************************************************************)
Min(a, b) ==
  IF a <= b THEN a ELSE b

Max(a, b) ==
  IF a >= b THEN a ELSE b

\* OutW without the Math.min of line 206
OutWUncapped(output_width) ==
  output_width

OutW(output_width) ==
  Min(output_width, MaxWidth)

OutH(output_width, output_height) ==
  Min(output_height, RoundDiv(MaxWidth * output_height, output_width))

(***************************************************************************)
(* Crossfade offsets of the filter chain (videoProcessor.ts:273-288)       *)
(* ChainOffset(C, td, k) is the value of `offset` when node k is written   *)
(* (node 1 joins clips 0 and 1, node k joins the chain and clip k).        *)
(***************************************************************************)
\* ChainOffset without the Math.max(0, ...) of lines 274, 277 and 282
RECURSIVE ChainOffsetNoClamp(_, _, _)
ChainOffsetNoClamp(realDurations, td, k) ==
  IF k = 1
  THEN RSub(realDurations[1], RInt(td))
  ELSE RAdd(ChainOffsetNoClamp(realDurations, td, k - 1),
            RSub(realDurations[k], RInt(td)))

\* ChainOffset adding the whole clip in line 281, without the overlap - td
RECURSIVE ChainOffsetNoOverlap(_, _, _)
ChainOffsetNoOverlap(realDurations, td, k) ==
  IF k = 1
  THEN RMax(RInt(0), RSub(realDurations[1], RInt(td)))
  ELSE RMax(RInt(0),
            RAdd(ChainOffsetNoOverlap(realDurations, td, k - 1), realDurations[k]))

RECURSIVE ChainOffset(_, _, _)
ChainOffset(realDurations, td, k) ==
  IF k = 1
  THEN RMax(RInt(0), RSub(realDurations[1], RInt(td)))
  ELSE RMax(RInt(0),
            RAdd(ChainOffset(realDurations, td, k - 1),
                 RSub(realDurations[k], RInt(td))))

(***************************************************************************)
(* State                                                                   *)
(***************************************************************************)
VARIABLES
  ffmpegInstance,  \* module variable: 0 is null, k > 0 the k-th FFmpeg object
  ffmpegLoading,   \* module variable
  ffmpegLoaded,    \* module variable
  created,         \* number of FFmpeg objects constructed so far (new FFmpeg())
  fs,              \* fs[k][name]: the virtual file system of FFmpeg object k
  pc,              \* pc[j]: the await at which call j of composeVideos is suspended
  files,           \* files[j]: argument `files`, a list of [id, ext]
  durations,       \* durations[j]: argument `durations`, in tenths of a second
  settings,        \* settings[j]: argument `settings`
  local,           \* local[j]: the local variables of the call
  progress,        \* progress[j]: the calls of onProgress so far, in order
  calls,           \* calls[j]: the engine operations the call invoked so far, in order
  result,          \* result[j]: how the promise of the call settled
  calcIn,          \* SpecAlloc: the arguments given to the pure functions
  calcOut,         \* SpecAlloc: what the pure functions returned
  step,            \* App state `step`
  clips,           \* App state `clips`: the `order` field of each clip, in array order
  isUploading,     \* App state `isUploading`
  processingStatus,\* App state `processingStatus`
  selection,       \* number of files handleFilesSelected is reading, -1 if none
  gestures,        \* number of clips removed or moved so far
  jobs,            \* the promise of each composeVideos call of the App, in order
  passed           \* the `files` argument of the latest composeVideos call

engineVars == <<ffmpegInstance, ffmpegLoading, ffmpegLoaded, created, fs>>
callVars == <<pc, files, durations, settings, local, progress, calls, result>>
calcVars == <<calcIn, calcOut>>
appVars == <<step, clips, isUploading, processingStatus, selection, gestures,
            jobs, passed>>
vars == <<engineVars, callVars, calcVars, appVars>>

\* the callers of composeVideos; each calls once, and the calls may overlap
\* or follow each other
Callers == {1, 2, 3}

\* file name extensions of the clips a caller passes
Exts == {"mp4", "mov"}

\* zero-based clip indices that pass the clip-count check
ClipIdx == 0..(ClipLimit - 1)

InputName(k, ext) == <<"input", k, ext>>
NormName(k) == <<"norm", k, "mp4">>
OutputName == <<"output", 0, "mp4">>

Names ==
  {InputName(k, e) : k \in ClipIdx, e \in Exts}
    \cup {NormName(k) : k \in ClipIdx} \cup {OutputName}

\* a file of the virtual file system: who wrote it, from which clip, and
\* the length of its stream (hundredths of a second); by = 0 is no file
NoFile == [by |-> 0, src |-> 0, t |-> 0]

\* at most one FFmpeg object is constructed per call
MaxObjects == Cardinality(Callers)

\* the locals of a call: `loading` is the `ffmpeg` of loadFFmpeg (line 34),
\* `ffmpeg` the one of composeVideos (line 200); delFails counts the
\* deleteFile rejections of the run
NoLocal ==
  [loading |-> 0, ffmpeg |-> 0, i |-> 0, td |-> 0, ffTransition |-> "",
   outW |-> 0, outH |-> 0, clipDurations |-> <<>>, filterComplex |-> <<>>,
   data |-> NoFile, delFails |-> 0]

NoSettings ==
  [transition_type |-> "", transition_duration |-> 0, target_duration |-> 0,
   output_width |-> 0, output_height |-> 0]

\* what the promise of a call settles with; clip is the clip index an error
\* carries, -1 when it carries none
Pending == [kind |-> "pending", data |-> NoFile, message |-> "", clip |-> -1]

\* the state of the module after it is imported, with no call made
InitEngine ==
  /\ ffmpegInstance = 0
  /\ ffmpegLoading = FALSE
  /\ ffmpegLoaded = FALSE
  /\ created = 0
  /\ fs = [k \in 1..MaxObjects |-> [nm \in Names |-> NoFile]]

InitCalls ==
  /\ pc = [j \in Callers |-> "idle"]
  /\ files = [j \in Callers |-> <<>>]
  /\ durations = [j \in Callers |-> <<>>]
  /\ settings = [j \in Callers |-> NoSettings]
  /\ local = [j \in Callers |-> NoLocal]
  /\ progress = [j \in Callers |-> <<>>]
  /\ calls = [j \in Callers |-> <<>>]
  /\ result = [j \in Callers |-> Pending]

\* the App after its first render: useState initial values (part_001:32-42)
InitApp ==
  /\ step = "upload"
  /\ clips = <<>>
  /\ isUploading = FALSE
  /\ processingStatus = "processing"
  /\ selection = -1
  /\ gestures = 0
  /\ jobs = <<>>
  /\ passed = <<>>

NoCalc == [stage |-> "none", C |-> <<>>, outW |-> 0, outH |-> 0, offsets |-> <<>>]

(***************************************************************************)
(* SpecAlloc: the pure functions applied to bounded inputs                 *)
(***************************************************************************)
\* original durations in tenths of a second: 0.5 s is the shortest clip
\* the App accepts (part_001:88), 120 s the longest (part_001:91)
AllocDurs == {0, 5, 15, 20, 80, 100, 120, 1200}
\* target durations: the slider range 10..60 s (CompositionConfig.tsx:48-49)
AllocTargets == {100, 300, 600}
\* transition durations: the slider range 0.1..2.0 s (TransitionSelector.tsx:81-82)
AllocTds == {1, 5, 15, 20}
\* requested geometries: the presets (CompositionConfig.tsx:9-15) and small ones
AllocGeoms == {<<1080, 1920>>, <<1080, 1080>>, <<1920, 1080>>, <<640, 480>>,
               <<480, 640>>, <<720, 720>>, <<721, 1283>>, <<3840, 2160>>}

SeqsUpTo(S, n) ==
  UNION {[1..m -> S] : m \in 1..n}

InitAlloc ==
  /\ InitEngine
  /\ InitCalls
  /\ InitApp
  /\ calcOut = NoCalc
  /\ calcIn \in [D : SeqsUpTo(AllocDurs, MaxAllocLen), T : AllocTargets,
                 t : AllocTds, geom : AllocGeoms]

\* const clipDurations = calculateClipDurations(durations, settings.target_duration, td)
ApplyAllocator ==
  /\ calcOut.stage = "none"
  /\ calcOut' = [stage |-> "allocated",
                 C |-> calculateClipDurations(calcIn.D, calcIn.T, calcIn.t),
                 outW |-> OutW(calcIn.geom[1]),
                 outH |-> OutH(calcIn.geom[1], calcIn.geom[2]),
                 offsets |-> <<>>]
  /\ UNCHANGED <<engineVars, callVars, calcIn, appVars>>

\* the offsets that the filter chain is written with, one per xfade node
ApplyChain ==
  /\ calcOut.stage = "allocated"
  /\ Len(calcIn.D) >= 2
  /\ calcOut' = [calcOut EXCEPT
        !.stage = "chained",
        !.offsets = [k \in 1..(Len(calcIn.D) - 1) |->
                       ToFixed2(ChainOffset(calcOut.C, calcIn.t, k))]]
  /\ UNCHANGED <<engineVars, callVars, calcIn, appVars>>

NextAlloc ==
  ApplyAllocator \/ ApplyChain

SpecAlloc ==
  InitAlloc /\ [][NextAlloc]_vars

(***************************************************************************)
(* TRANSITION_MAP (videoProcessor.ts:173-184) and line 203                 *)
(***************************************************************************)
\* TRANSITION_MAP with zoom_in sent to the filter of fade
TransitionMapZoomAsFade ==
  [fade |-> "fade", dissolve |-> "dissolve", wipe_left |-> "wipeleft",
   wipe_right |-> "wiperight", wipe_up |-> "wipeup", wipe_down |-> "wipedown",
   slide_left |-> "slideleft", slide_right |-> "slideright",
   zoom_in |-> "fade", none |-> "fade"]

TRANSITION_MAP ==
  [fade |-> "fade", dissolve |-> "dissolve", wipe_left |-> "wipeleft",
   wipe_right |-> "wiperight", wipe_up |-> "wipeup", wipe_down |-> "wipedown",
   slide_left |-> "slideleft", slide_right |-> "slideright",
   zoom_in |-> "squeezev", none |-> "fade"]

\* TRANSITION_MAP is an object literal: a property read that finds no own
\* key goes on to Object.prototype. These are members every object inherits,
\* with the text the template literal of lines 275-286 prints for them.
ObjectPrototype ==
  [constructor |-> "function Object() { [native code] }",
   toString |-> "function toString() { [native code] }",
   valueOf |-> "function valueOf() { [native code] }",
   hasOwnProperty |-> "function hasOwnProperty() { [native code] }"]

\* line 203: TRANSITION_MAP[settings.transition_type] || "fade"; every entry
\* and every inherited member is truthy, undefined is not
FfTransition(transition_type) ==
  IF transition_type \in DOMAIN TRANSITION_MAP
  THEN TRANSITION_MAP[transition_type]
  ELSE IF transition_type \in DOMAIN ObjectPrototype
  THEN ObjectPrototype[transition_type]
  ELSE "fade"

(***************************************************************************)
(* What the callbacks and the engine observe                               *)
(***************************************************************************)
\* one call of onProgress(p, message); k is the clip number in the message
Progress(p, m, k) ==
  [p |-> p, m |-> m, k |-> k]

NoName == <<"", 0, "">>

\* one engine operation: load, writeFile, exec, readFile or deleteFile
\* status: pending until its promise settles, then ok or rejected
EngineCall(op, name, status) ==
  [op |-> op, name |-> name, status |-> status, kind |-> "", inputs |-> <<>>,
   t |-> 0, w |-> 0, h |-> 0, filter |-> <<>>]

\* the engine operation invoked last settles
Settled(cs, status) ==
  [cs EXCEPT ![Len(cs)].status = status]

Ext(j, k) ==
  files[j][k + 1].ext

\* NormExec that reads the uploaded files from the last to the first
NormExecReversed(j, k, loc) ==
  [op |-> "exec", name |-> NormName(k), status |-> "pending", kind |-> "norm",
   inputs |-> <<InputName(Len(files[j]) - 1 - k, Ext(j, Len(files[j]) - 1 - k))>>,
   t |-> ToFixed2(loc.clipDurations[k + 1]),
   w |-> loc.outW, h |-> loc.outH, filter |-> <<>>]

\* lines 232-242: the normalization exec of clip k (zero-based)
NormExec(j, k, loc) ==
  [op |-> "exec", name |-> NormName(k), status |-> "pending", kind |-> "norm",
   inputs |-> <<InputName(k, Ext(j, k))>>,
   t |-> ToFixed2(loc.clipDurations[k + 1]),
   w |-> loc.outW, h |-> loc.outH, filter |-> <<>>]

\* CopyExec reading the uploaded file instead of the normalized clip
CopyExecOfInput ==
  [op |-> "exec", name |-> OutputName, status |-> "pending", kind |-> "copy",
   inputs |-> <<InputName(0, "mp4")>>, t |-> 0, w |-> 0, h |-> 0, filter |-> <<>>]

\* lines 255-259: the copy of the single normalized clip
CopyExec ==
  [op |-> "exec", name |-> OutputName, status |-> "pending", kind |-> "copy",
   inputs |-> <<NormName(0)>>, t |-> 0, w |-> 0, h |-> 0, filter |-> <<>>]

\* the stream labels of the filter graph: `${i}:v`, v01, v2 .. v9, outv
ClipRef(k) ==
  <<"0:v", "1:v", "2:v", "3:v", "4:v", "5:v", "6:v", "7:v", "8:v", "9:v">>[k + 1]

VLabel(k) ==
  <<"v1", "v2", "v3", "v4", "v5", "v6", "v7", "v8", "v9">>[k]

\* XfadeNode whose prevLabel is `v${i}` instead of `v${i - 1}` (line 284)
XfadeNodeStaleLabel(n, k, realDurations, td, ffTransition) ==
  [in1 |-> IF k = 1 THEN ClipRef(0) ELSE IF k = 2 THEN "v01" ELSE VLabel(k),
   in2 |-> ClipRef(k),
   transition |-> ffTransition,
   duration |-> td,
   offset |-> ToFixed2(ChainOffset(realDurations, td, k)),
   out |-> IF n = 2 THEN "outv"
           ELSE IF k = 1 THEN "v01"
           ELSE IF k = n - 1 THEN "outv" ELSE VLabel(k)]

\* lines 271-288: the xfade chain for n >= 2 clips; node k joins clip k
XfadeNode(n, k, realDurations, td, ffTransition) ==
  [in1 |-> IF k = 1 THEN ClipRef(0) ELSE IF k = 2 THEN "v01" ELSE VLabel(k - 1),
   in2 |-> ClipRef(k),
   transition |-> ffTransition,
   duration |-> td,
   offset |-> ToFixed2(ChainOffset(realDurations, td, k)),
   out |-> IF n = 2 THEN "outv"
           ELSE IF k = 1 THEN "v01"
           ELSE IF k = n - 1 THEN "outv" ELSE VLabel(k)]

FilterComplex(n, realDurations, td, ffTransition) ==
  [k \in 1..(n - 1) |-> XfadeNode(n, k, realDurations, td, ffTransition)]

\* lines 292-302: the final render
XfadeExec(n, loc) ==
  [op |-> "exec", name |-> OutputName, status |-> "pending", kind |-> "xfade",
   inputs |-> [k \in 1..n |-> NormName(k - 1)], t |-> 0, w |-> 0, h |-> 0,
   filter |-> FilterComplex(n, loc.clipDurations, loc.td, loc.ffTransition)]

(***************************************************************************)
(* loadFFmpeg (videoProcessor.ts:17-59)                                    *)
(***************************************************************************)
\* LoadEnter without the wait of lines 22-28
LoadEnterNoGuard(j, prog, fromWait) ==
  IF ffmpegInstance # 0 /\ ffmpegLoaded
  THEN /\ pc' = [pc EXCEPT ![j] = "loaded"]
       /\ local' = [local EXCEPT ![j] = [NoLocal EXCEPT !.ffmpeg = ffmpegInstance]]
       /\ progress' = [progress EXCEPT ![j] = prog]
       /\ calls' = [calls EXCEPT ![j] = <<>>]
       /\ UNCHANGED engineVars
  ELSE /\ ffmpegLoading' = TRUE
       /\ created' = created + 1
       /\ pc' = [pc EXCEPT ![j] = "loading"]
       /\ local' = [local EXCEPT ![j] = [NoLocal EXCEPT !.loading = created + 1]]
       /\ progress' = [progress EXCEPT ![j] =
            prog \o <<Progress(8, "Carregando motor de video...", 0),
                      Progress(8, "Baixando FFmpeg WebAssembly...", 0)>>]
       /\ calls' = [calls EXCEPT ![j] = <<EngineCall("load", NoName, "pending")>>]
       /\ UNCHANGED <<ffmpegInstance, ffmpegLoaded, fs>>

\* LoadEnter without the fast path of line 20 and the re-check of line 27:
\* a loaded engine is not reused
LoadEnterNoFastPath(j, prog, fromWait) ==
  IF ~fromWait /\ ffmpegLoading
  THEN /\ pc' = [pc EXCEPT ![j] = "waiting"]
       /\ local' = [local EXCEPT ![j] = NoLocal]
       /\ progress' = [progress EXCEPT ![j] = prog]
       /\ calls' = [calls EXCEPT ![j] = <<>>]
       /\ UNCHANGED engineVars
  ELSE /\ ffmpegLoading' = TRUE
       /\ created' = created + 1
       /\ pc' = [pc EXCEPT ![j] = "loading"]
       /\ local' = [local EXCEPT ![j] = [NoLocal EXCEPT !.loading = created + 1]]
       /\ progress' = [progress EXCEPT ![j] =
            prog \o <<Progress(8, "Carregando motor de video...", 0),
                      Progress(8, "Baixando FFmpeg WebAssembly...", 0)>>]
       /\ calls' = [calls EXCEPT ![j] = <<EngineCall("load", NoName, "pending")>>]
       /\ UNCHANGED <<ffmpegInstance, ffmpegLoaded, fs>>

\* the code of loadFFmpeg up to its first await, entered by caller j whose
\* progress log is prog: lines 20-44 at the call (fromWait = FALSE), lines
\* 27-44 when the wait loop of line 24 is left (fromWait = TRUE)
LoadEnter(j, prog, fromWait) ==
  IF ffmpegInstance # 0 /\ ffmpegLoaded
  THEN /\ pc' = [pc EXCEPT ![j] = "loaded"]
       /\ local' = [local EXCEPT ![j] = [NoLocal EXCEPT !.ffmpeg = ffmpegInstance]]
       /\ progress' = [progress EXCEPT ![j] = prog]
       /\ calls' = [calls EXCEPT ![j] = <<>>]
       /\ UNCHANGED engineVars
  ELSE IF ~fromWait /\ ffmpegLoading
  THEN /\ pc' = [pc EXCEPT ![j] = "waiting"]
       /\ local' = [local EXCEPT ![j] = NoLocal]
       /\ progress' = [progress EXCEPT ![j] = prog]
       /\ calls' = [calls EXCEPT ![j] = <<>>]
       /\ UNCHANGED engineVars
  ELSE /\ ffmpegLoading' = TRUE
       /\ created' = created + 1
       /\ pc' = [pc EXCEPT ![j] = "loading"]
       /\ local' = [local EXCEPT ![j] = [NoLocal EXCEPT !.loading = created + 1]]
       /\ progress' = [progress EXCEPT ![j] =
            prog \o <<Progress(8, "Carregando motor de video...", 0),
                      Progress(8, "Baixando FFmpeg WebAssembly...", 0)>>]
       /\ calls' = [calls EXCEPT ![j] = <<EngineCall("load", NoName, "pending")>>]
       /\ UNCHANGED <<ffmpegInstance, ffmpegLoaded, fs>>

\* the promise of composeVideos rejects: with new Error(message) of lines
\* 196-197, or with what a rejected await threw ("engine", "fetch"), which
\* no catch of composeVideos wraps
Throw(j, message) ==
  /\ pc' = [pc EXCEPT ![j] = "failed"]
  /\ result' = [result EXCEPT ![j] =
       [kind |-> "error", data |-> NoFile, message |-> message, clip |-> -1]]

(***************************************************************************)
(* composeVideos (videoProcessor.ts:190-331)                               *)
(***************************************************************************)
\* the arguments the callers pass
DEFAULT_SETTINGS ==
  [transition_type |-> "fade", transition_duration |-> 5, target_duration |-> 300,
   output_width |-> 1080, output_height |-> 1920]

CallSettings ==
  {DEFAULT_SETTINGS,
   [transition_type |-> "none", transition_duration |-> 20, target_duration |-> 600,
    output_width |-> 1920, output_height |-> 1080]}

\* settings.transition_type is a string (types.ts:23): the ten identifiers of
\* getAvailableTransitions, and strings that are none of them
TransitionTypes ==
  {"fade", "dissolve", "wipe_left", "wipe_right", "wipe_up", "wipe_down",
   "slide_left", "slide_right", "zoom_in", "none", "spin", "", "constructor",
   "toString"}

TypedSettings ==
  CallSettings
    \cup {[DEFAULT_SETTINGS EXCEPT !.transition_type = ty] : ty \in TransitionTypes}

\* the durations of the clips repeat one of these patterns
DurPatterns ==
  {<<100, 80, 120>>, <<100, 15, 5>>, <<50, 5, 100>>, <<5, 50, 100>>, <<1200, 100, 5>>}

DurationsFor(n, pat) ==
  [k \in 1..n |-> pat[((k - 1) % Len(pat)) + 1]]

\* InvalidInput without the check of line 197
InvalidInputNoMax(n) ==
  n = 0

\* lines 196-197: the clip counts that are rejected
InvalidInput(n) ==
  n = 0 \/ n > ClipLimit

\* lines 196-200 and the synchronous part of the loadFFmpeg call in line 200
ComposeCall(j, counts, exts, setts, pats) ==
  /\ pc[j] = "idle"
  /\ \E n \in counts, ext \in exts, pat \in pats, s \in setts :
       /\ files' = [files EXCEPT ![j] = [k \in 1..n |-> [id |-> k, ext |-> ext]]]
       /\ durations' = [durations EXCEPT ![j] = DurationsFor(n, pat)]
       /\ settings' = [settings EXCEPT ![j] = s]
       /\ IF InvalidInput(n)
          THEN /\ Throw(j, IF n = 0 THEN "Nenhum video fornecido"
                                    ELSE "Maximo de 10 videos")
               /\ local' = [local EXCEPT ![j] = NoLocal]
               /\ progress' = [progress EXCEPT ![j] = <<>>]
               /\ calls' = [calls EXCEPT ![j] = <<>>]
               /\ UNCHANGED engineVars
          ELSE /\ result' = [result EXCEPT ![j] = Pending]
               /\ LoadEnter(j, <<Progress(5, "Inicializando motor de video...", 0)>>,
                            FALSE)
  /\ UNCHANGED <<calcVars, appVars>>

\* line 25: the timer of a caller in the wait loop of loadFFmpeg fires
WaitTick(j) ==
  /\ pc[j] = "waiting"
  /\ IF ffmpegLoading
     THEN UNCHANGED <<engineVars, pc, local, progress, calls>>
     ELSE LoadEnter(j, progress[j], TRUE)
  /\ UNCHANGED <<files, durations, settings, result, calcVars, appVars>>

\* LoadSettle without the finally of lines 56-58: a rejection leaves
\* ffmpegLoading set
LoadSettleNoFinally(j) ==
  /\ pc[j] = "loading"
  /\ \/ /\ ffmpegLoading' = FALSE
        /\ ffmpegInstance' = local[j].loading
        /\ ffmpegLoaded' = TRUE
        /\ progress' = [progress EXCEPT ![j] =
             Append(@, Progress(8, "Motor de video pronto!", 0))]
        /\ pc' = [pc EXCEPT ![j] = "loaded"]
        /\ local' = [local EXCEPT ![j].ffmpeg = local[j].loading]
        /\ calls' = [calls EXCEPT ![j] = Settled(@, "ok")]
        /\ UNCHANGED result
     \/ /\ Throw(j, "engine")
        /\ calls' = [calls EXCEPT ![j] = Settled(@, "rejected")]
        /\ UNCHANGED <<ffmpegInstance, ffmpegLoading, ffmpegLoaded, progress, local>>
  /\ UNCHANGED <<created, fs, files, durations, settings, calcVars, appVars>>

\* lines 44-58: the awaits of toBlobURL and ffmpeg.load settle
LoadSettle(j) ==
  /\ pc[j] = "loading"
  /\ ffmpegLoading' = FALSE
  /\ \/ /\ ffmpegInstance' = local[j].loading
        /\ ffmpegLoaded' = TRUE
        /\ progress' = [progress EXCEPT ![j] =
             Append(@, Progress(8, "Motor de video pronto!", 0))]
        /\ pc' = [pc EXCEPT ![j] = "loaded"]
        /\ local' = [local EXCEPT ![j].ffmpeg = local[j].loading]
        /\ calls' = [calls EXCEPT ![j] = Settled(@, "ok")]
        /\ UNCHANGED result
     \/ /\ Throw(j, "engine")
        /\ calls' = [calls EXCEPT ![j] = Settled(@, "rejected")]
        /\ UNCHANGED <<ffmpegInstance, ffmpegLoaded, progress, local>>
  /\ UNCHANGED <<created, fs, files, durations, settings, calcVars, appVars>>

\* AfterLoad that leaves no room for transitions when the call found the
\* engine already loaded
AfterLoadWarmEngine(j) ==
  /\ pc[j] = "loaded"
  /\ LET s == settings[j]
         td == IF local[j].loading = 0 THEN 0 ELSE s.transition_duration
     IN  local' = [local EXCEPT ![j] =
           [@ EXCEPT !.td = td,
                     !.ffTransition = FfTransition(s.transition_type),
                     !.outW = OutW(s.output_width),
                     !.outH = OutH(s.output_width, s.output_height),
                     !.clipDurations =
                        calculateClipDurations(durations[j], s.target_duration, td),
                     !.i = 0]]
  /\ progress' = [progress EXCEPT ![j] =
       Append(@, Progress(10, "Carregando videos na memoria...", 0))]
  /\ pc' = [pc EXCEPT ![j] = "write"]
  /\ UNCHANGED <<engineVars, files, durations, settings, calls, result, calcVars, appVars>>

\* lines 202-219: the settings are read, the durations allocated and the
\* write of the first input file is started
AfterLoad(j) ==
  /\ pc[j] = "loaded"
  /\ LET s == settings[j]
         td == s.transition_duration
     IN  local' = [local EXCEPT ![j] =
           [@ EXCEPT !.td = td,
                     !.ffTransition = FfTransition(s.transition_type),
                     !.outW = OutW(s.output_width),
                     !.outH = OutH(s.output_width, s.output_height),
                     !.clipDurations =
                        calculateClipDurations(durations[j], s.target_duration, td),
                     !.i = 0]]
  /\ progress' = [progress EXCEPT ![j] =
       Append(@, Progress(10, "Carregando videos na memoria...", 0))]
  /\ pc' = [pc EXCEPT ![j] = "write"]
  /\ UNCHANGED <<engineVars, files, durations, settings, calls, result, calcVars, appVars>>

N(j) ==
  Len(files[j])

\* the file system of the engine the call uses
Fs(j) ==
  fs[local[j].ffmpeg]

Present(j, name) ==
  Fs(j)[name].by # 0

\* NormPercent counting the finished clips over a band of 40
NormPercentOvershoot(i, n) ==
  25 + RoundDiv((i + 1) * 40, n)

\* lines 220-223 and 244-247: the percent reported after clip i of n
LoadPercent(i, n) ==
  10 + RoundDiv(i * 15, n)

NormPercent(i, n) ==
  25 + RoundDiv(i * 30, n)

\* WriteSettle that starts the normalization of clip 0 once the first input
\* file is written
WriteSettleEarlyNorm(j) ==
  /\ pc[j] = "write"
  /\ LET i == local[j].i
         name == InputName(i, Ext(j, i))
         shown == Append(progress[j],
                    Progress(LoadPercent(i, N(j)), "Carregando video", i + 1))
     IN  \/ /\ fs' = [fs EXCEPT ![local[j].ffmpeg][name] =
                        [by |-> j, src |-> files[j][i + 1].id,
                         t |-> 10 * durations[j][i + 1]]]
            /\ IF i + 1 < 1
               THEN /\ local' = [local EXCEPT ![j].i = i + 1]
                    /\ progress' = [progress EXCEPT ![j] = shown]
                    /\ calls' = [calls EXCEPT ![j] =
                         Append(@, EngineCall("writeFile", name, "ok"))]
                    /\ UNCHANGED pc
               ELSE /\ local' = [local EXCEPT ![j].i = 0]
                    /\ progress' = [progress EXCEPT ![j] =
                         Append(shown, Progress(25, "Normalizando videos...", 0))]
                    /\ calls' = [calls EXCEPT ![j] =
                         @ \o <<EngineCall("writeFile", name, "ok"),
                                NormExec(j, 0, local[j])>>]
                    /\ pc' = [pc EXCEPT ![j] = "norm"]
            /\ UNCHANGED result
         \/ \* fetchFile rejects: writeFile is not called
            /\ Throw(j, "fetch")
            /\ UNCHANGED <<fs, local, progress, calls>>
         \/ \* writeFile rejects
            /\ Throw(j, "engine")
            /\ calls' = [calls EXCEPT ![j] =
                 Append(@, EngineCall("writeFile", name, "rejected"))]
            /\ UNCHANGED <<fs, local, progress>>
  /\ UNCHANGED <<ffmpegInstance, ffmpegLoading, ffmpegLoaded, created,
                 files, durations, settings, calcVars, appVars>>

\* lines 219-232: fetchFile and writeFile of clip i settle; after the last
\* clip the normalization of clip 0 is started
WriteSettle(j) ==
  /\ pc[j] = "write"
  /\ LET i == local[j].i
         name == InputName(i, Ext(j, i))
         shown == Append(progress[j],
                    Progress(LoadPercent(i, N(j)), "Carregando video", i + 1))
     IN  \/ /\ fs' = [fs EXCEPT ![local[j].ffmpeg][name] =
                        [by |-> j, src |-> files[j][i + 1].id,
                         t |-> 10 * durations[j][i + 1]]]
            /\ IF i + 1 < N(j)
               THEN /\ local' = [local EXCEPT ![j].i = i + 1]
                    /\ progress' = [progress EXCEPT ![j] = shown]
                    /\ calls' = [calls EXCEPT ![j] =
                         Append(@, EngineCall("writeFile", name, "ok"))]
                    /\ UNCHANGED pc
               ELSE /\ local' = [local EXCEPT ![j].i = 0]
                    /\ progress' = [progress EXCEPT ![j] =
                         Append(shown, Progress(25, "Normalizando videos...", 0))]
                    /\ calls' = [calls EXCEPT ![j] =
                         @ \o <<EngineCall("writeFile", name, "ok"),
                                NormExec(j, 0, local[j])>>]
                    /\ pc' = [pc EXCEPT ![j] = "norm"]
            /\ UNCHANGED result
         \/ \* fetchFile rejects: writeFile is not called
            /\ Throw(j, "fetch")
            /\ UNCHANGED <<fs, local, progress, calls>>
         \/ \* writeFile rejects
            /\ Throw(j, "engine")
            /\ calls' = [calls EXCEPT ![j] =
                 Append(@, EngineCall("writeFile", name, "rejected"))]
            /\ UNCHANGED <<fs, local, progress>>
  /\ UNCHANGED <<ffmpegInstance, ffmpegLoading, ffmpegLoaded, created,
                 files, durations, settings, calcVars, appVars>>

\* lines 232-302: the normalization exec of clip i settles; after the last
\* clip the filter graph is built and the final exec is started
NormSettle(j) ==
  /\ pc[j] = "norm"
  /\ LET i == local[j].i
         n == N(j)
         input == InputName(i, Ext(j, i))
         done == Settled(calls[j], "ok")
         shown == Append(progress[j],
                    Progress(NormPercent(i, n), "Normalizando video", i + 1))
         shown60 == Append(shown, Progress(60, "Aplicando transicoes...", 0))
     IN  \/ /\ Present(j, input)
            /\ fs' = [fs EXCEPT ![local[j].ffmpeg][NormName(i)] =
                        [by |-> j, src |-> Fs(j)[input].src,
                         t |-> Min(ToFixed2(local[j].clipDurations[i + 1]),
                                   Fs(j)[input].t)]]
            /\ IF i + 1 < n
               THEN /\ local' = [local EXCEPT ![j].i = i + 1]
                    /\ progress' = [progress EXCEPT ![j] = shown]
                    /\ calls' = [calls EXCEPT ![j] =
                         Append(done, NormExec(j, i + 1, local[j]))]
                    /\ UNCHANGED pc
               ELSE IF n = 1
               THEN /\ progress' = [progress EXCEPT ![j] = shown60]
                    /\ calls' = [calls EXCEPT ![j] = Append(done, CopyExec)]
                    /\ pc' = [pc EXCEPT ![j] = "render"]
                    /\ UNCHANGED local
               ELSE /\ local' = [local EXCEPT ![j].filterComplex =
                         FilterComplex(n, local[j].clipDurations, local[j].td,
                                       local[j].ffTransition)]
                    /\ progress' = [progress EXCEPT ![j] =
                         Append(shown60, Progress(70, "Renderizando video final...", 0))]
                    /\ calls' = [calls EXCEPT ![j] = Append(done, XfadeExec(n, local[j]))]
                    /\ pc' = [pc EXCEPT ![j] = "render"]
            /\ UNCHANGED result
         \/ /\ Throw(j, "engine")
            /\ calls' = [calls EXCEPT ![j] = Settled(@, "rejected")]
            /\ UNCHANGED <<fs, local, progress>>
  /\ UNCHANGED <<ffmpegInstance, ffmpegLoading, ffmpegLoaded, created,
                 files, durations, settings, calcVars, appVars>>

\* the length of the stream the final exec writes: -c copy keeps the length
\* of its input; an xfade chain ends where its last clip, started at the
\* last offset, ends
OutputLength(j) ==
  LET exec == calls[j][Len(calls[j])]
      last == Fs(j)[exec.inputs[Len(exec.inputs)]].t
  IN  IF exec.kind = "copy"
      THEN last
      ELSE exec.filter[Len(exec.filter)].offset + last

\* RenderSettle that invokes the final exec a second time when the first
\* attempt is rejected
RenderSettleRetry(j) ==
  /\ pc[j] = "render"
  /\ \/ /\ \A k \in 0..(N(j) - 1) : Present(j, NormName(k))
        /\ fs' = [fs EXCEPT ![local[j].ffmpeg][OutputName] =
                    [by |-> j, src |-> 0, t |-> OutputLength(j)]]
        /\ progress' = [progress EXCEPT ![j] = Append(@, Progress(90, "Finalizando...", 0))]
        /\ calls' = [calls EXCEPT ![j] =
             Append(Settled(@, "ok"), EngineCall("readFile", OutputName, "pending"))]
        /\ pc' = [pc EXCEPT ![j] = "read"]
        /\ UNCHANGED result
     \/ /\ calls[j][Len(calls[j]) - 1].name # OutputName
        /\ calls' = [calls EXCEPT ![j] =
             Append(Settled(@, "rejected"),
                    [calls[j][Len(calls[j])] EXCEPT !.status = "pending"])]
        /\ UNCHANGED <<fs, progress, pc, result>>
     \/ /\ calls[j][Len(calls[j]) - 1].name = OutputName
        /\ Throw(j, "engine")
        /\ calls' = [calls EXCEPT ![j] = Settled(@, "rejected")]
        /\ UNCHANGED <<fs, progress>>
  /\ UNCHANGED <<ffmpegInstance, ffmpegLoading, ffmpegLoaded, created,
                 files, durations, settings, local, calcVars, appVars>>

\* lines 255-308: the final exec settles and the read-back is started
RenderSettle(j) ==
  /\ pc[j] = "render"
  /\ \/ /\ \A k \in 0..(N(j) - 1) : Present(j, NormName(k))
        /\ fs' = [fs EXCEPT ![local[j].ffmpeg][OutputName] =
                    [by |-> j, src |-> 0, t |-> OutputLength(j)]]
        /\ progress' = [progress EXCEPT ![j] = Append(@, Progress(90, "Finalizando...", 0))]
        /\ calls' = [calls EXCEPT ![j] =
             Append(Settled(@, "ok"), EngineCall("readFile", OutputName, "pending"))]
        /\ pc' = [pc EXCEPT ![j] = "read"]
        /\ UNCHANGED result
     \/ /\ Throw(j, "engine")
        /\ calls' = [calls EXCEPT ![j] = Settled(@, "rejected")]
        /\ UNCHANGED <<fs, progress>>
  /\ UNCHANGED <<ffmpegInstance, ffmpegLoading, ffmpegLoaded, created,
                 files, durations, settings, local, calcVars, appVars>>

\* ReadSettle with a catch around readFile that goes on to the cleanup
ReadSettleSwallow(j) ==
  /\ pc[j] = "read"
  /\ \/ /\ Present(j, OutputName)
        /\ local' = [local EXCEPT ![j].data = Fs(j)[OutputName], ![j].i = 0]
        /\ calls' = [calls EXCEPT ![j] =
             Append(Settled(@, "ok"),
                    EngineCall("deleteFile", InputName(0, Ext(j, 0)), "pending"))]
     \/ /\ local' = [local EXCEPT ![j].i = 0]
        /\ calls' = [calls EXCEPT ![j] =
             Append(Settled(@, "rejected"),
                    EngineCall("deleteFile", InputName(0, Ext(j, 0)), "pending"))]
  /\ pc' = [pc EXCEPT ![j] = "delInput"]
  /\ UNCHANGED <<engineVars, files, durations, settings, progress, result, calcVars, appVars>>

\* lines 308-314: readFile settles and the cleanup loop is entered
ReadSettle(j) ==
  /\ pc[j] = "read"
  /\ \/ /\ Present(j, OutputName)
        /\ local' = [local EXCEPT ![j].data = Fs(j)[OutputName], ![j].i = 0]
        /\ calls' = [calls EXCEPT ![j] =
             Append(Settled(@, "ok"),
                    EngineCall("deleteFile", InputName(0, Ext(j, 0)), "pending"))]
        /\ pc' = [pc EXCEPT ![j] = "delInput"]
        /\ UNCHANGED result
     \/ /\ Throw(j, "engine")
        /\ calls' = [calls EXCEPT ![j] = Settled(@, "rejected")]
        /\ UNCHANGED local
  /\ UNCHANGED <<engineVars, files, durations, settings, progress, calcVars, appVars>>

\* a deleteFile may reject: always when the file is absent, and otherwise
\* at most MaxDeleteFailures times in a run
MayReject(j, name) ==
  ~Present(j, name) \/ local[j].delFails < MaxDeleteFailures

\* lines 311-321: the next iteration of the cleanup loop, or the delete of
\* output.mp4 after the last one; loc and cs are the call's locals and
\* engine operations after this step
NextDelete(j, loc, cs) ==
  IF loc.i + 1 < N(j)
  THEN /\ local' = [local EXCEPT ![j] = [loc EXCEPT !.i = loc.i + 1]]
       /\ calls' = [calls EXCEPT ![j] =
            Append(cs, EngineCall("deleteFile",
                                  InputName(loc.i + 1, Ext(j, loc.i + 1)), "pending"))]
       /\ pc' = [pc EXCEPT ![j] = "delInput"]
  ELSE /\ local' = [local EXCEPT ![j] = loc]
       /\ calls' = [calls EXCEPT ![j] =
            Append(cs, EngineCall("deleteFile", OutputName, "pending"))]
       /\ pc' = [pc EXCEPT ![j] = "delOutput"]

\* lines 314-318: deleteFile(input_i) settles; a rejection is caught by the
\* catch of line 316, which also skips the delete of norm_i
DelInputSettle(j) ==
  /\ pc[j] = "delInput"
  /\ LET i == local[j].i
         name == InputName(i, Ext(j, i))
     IN  \/ /\ Present(j, name)
            /\ fs' = [fs EXCEPT ![local[j].ffmpeg][name] = NoFile]
            /\ calls' = [calls EXCEPT ![j] =
                 Append(Settled(@, "ok"),
                        EngineCall("deleteFile", NormName(i), "pending"))]
            /\ pc' = [pc EXCEPT ![j] = "delNorm"]
            /\ UNCHANGED local
         \/ /\ MayReject(j, name)
            /\ NextDelete(j, [local[j] EXCEPT !.delFails = @ + 1],
                          Settled(calls[j], "rejected"))
            /\ UNCHANGED fs
  /\ UNCHANGED <<ffmpegInstance, ffmpegLoading, ffmpegLoaded, created,
                 files, durations, settings, progress, result, calcVars, appVars>>

\* lines 315-318: deleteFile(norm_i) settles
DelNormSettle(j) ==
  /\ pc[j] = "delNorm"
  /\ LET name == NormName(local[j].i)
     IN  \/ /\ Present(j, name)
            /\ fs' = [fs EXCEPT ![local[j].ffmpeg][name] = NoFile]
            /\ NextDelete(j, local[j], Settled(calls[j], "ok"))
         \/ /\ MayReject(j, name)
            /\ NextDelete(j, [local[j] EXCEPT !.delFails = @ + 1],
                          Settled(calls[j], "rejected"))
            /\ UNCHANGED fs
  /\ UNCHANGED <<ffmpegInstance, ffmpegLoading, ffmpegLoaded, created,
                 files, durations, settings, progress, result, calcVars, appVars>>

\* Return with the Blob made of what output.mp4 holds when the call
\* returns, after the cleanup, instead of the data read at line 308
ReturnOutputAfterCleanup(j) ==
  /\ progress' = [progress EXCEPT ![j] = Append(@, Progress(100, "Concluido!", 0))]
  /\ result' = [result EXCEPT ![j] =
       [kind |-> "blob", data |-> Fs(j)'[OutputName], message |-> "", clip |-> -1]]
  /\ pc' = [pc EXCEPT ![j] = "done"]

\* lines 326-330: 100 is reported and the Blob of the data read is returned
Return(j) ==
  /\ progress' = [progress EXCEPT ![j] = Append(@, Progress(100, "Concluido!", 0))]
  /\ result' = [result EXCEPT ![j] =
       [kind |-> "blob", data |-> local[j].data, message |-> "", clip |-> -1]]
  /\ pc' = [pc EXCEPT ![j] = "done"]

\* DelOutputSettle without the try/catch of lines 320-324
DelOutputSettleNoCatch(j) ==
  /\ pc[j] = "delOutput"
  /\ \/ /\ Present(j, OutputName)
        /\ fs' = [fs EXCEPT ![local[j].ffmpeg][OutputName] = NoFile]
        /\ calls' = [calls EXCEPT ![j] = Settled(@, "ok")]
        /\ UNCHANGED local
        /\ Return(j)
     \/ /\ MayReject(j, OutputName)
        /\ local' = [local EXCEPT ![j].delFails = @ + 1]
        /\ calls' = [calls EXCEPT ![j] = Settled(@, "rejected")]
        /\ Throw(j, "engine")
        /\ UNCHANGED <<fs, progress>>
  /\ UNCHANGED <<ffmpegInstance, ffmpegLoading, ffmpegLoaded, created,
                 files, durations, settings, calcVars, appVars>>

\* lines 320-330: deleteFile(output.mp4) settles, by success or by a
\* rejection that the catch of line 322 swallows, and the call returns
DelOutputSettle(j) ==
  /\ pc[j] = "delOutput"
  /\ \/ /\ Present(j, OutputName)
        /\ fs' = [fs EXCEPT ![local[j].ffmpeg][OutputName] = NoFile]
        /\ calls' = [calls EXCEPT ![j] = Settled(@, "ok")]
        /\ UNCHANGED local
        /\ Return(j)
     \/ /\ MayReject(j, OutputName)
        /\ local' = [local EXCEPT ![j].delFails = @ + 1]
        /\ calls' = [calls EXCEPT ![j] = Settled(@, "rejected")]
        /\ UNCHANGED fs
        /\ Return(j)
  /\ UNCHANGED <<ffmpegInstance, ffmpegLoading, ffmpegLoaded, created,
                 files, durations, settings, calcVars, appVars>>

(***************************************************************************)
(* Spec: one caller, every clip count 0 .. ClipLimit + 1                   *)
(***************************************************************************)
Init ==
  /\ InitEngine
  /\ InitCalls
  /\ InitApp
  /\ calcIn = NoCalc
  /\ calcOut = NoCalc

Settle(j) ==
  \/ LoadSettle(j)
  \/ AfterLoad(j)
  \/ WriteSettle(j)
  \/ NormSettle(j)
  \/ RenderSettle(j)
  \/ ReadSettle(j)
  \/ DelInputSettle(j)
  \/ DelNormSettle(j)
  \/ DelOutputSettle(j)

Next ==
  \/ ComposeCall(1, 0..MaxVariedClips, Exts, TypedSettings, DurPatterns)
  \/ ComposeCall(1, (MaxVariedClips + 1)..(ClipLimit + 1), {"mp4"}, CallSettings,
                 {<<100, 80, 120>>, <<5, 50, 100>>})
  \/ Settle(1)

Spec ==
  Init /\ [][Next]_vars

(***************************************************************************)
(* SpecConc: two callers that share the engine, short clip lists           *)
(***************************************************************************)
NextConc ==
  \E j \in {1, 2} :
    \/ ComposeCall(j, 0..MaxConcClips, {"mp4"}, {DEFAULT_SETTINGS}, {<<100, 80, 120>>})
    \/ WaitTick(j)
    \/ Settle(j)

SpecConc ==
  Init /\ [][NextConc]_vars

(***************************************************************************)
(* SpecLoad: three callers, each followed until its loadFFmpeg call has    *)
(* returned or thrown                                                      *)
(***************************************************************************)
NextLoad ==
  \E j \in Callers :
    \/ ComposeCall(j, {1, 2}, Exts, CallSettings, {<<100, 80, 120>>})
    \/ WaitTick(j)
    \/ LoadSettle(j)

SpecLoad ==
  Init /\ [][NextLoad]_vars

\* the timer of line 25 fires and a pending initialization settles
FairLoad ==
  \A j \in Callers : WF_vars(WaitTick(j)) /\ WF_vars(LoadSettle(j))

SpecLoadFair ==
  SpecLoad /\ FairLoad

(***************************************************************************)
(* SpecApp: the App component that drives composeVideos.  Each action is   *)
(* one event handler, or the continuation of one after an await; a         *)
(* composeVideos call is followed from its invocation to the settlement of *)
(* its promise.                                                            *)
(***************************************************************************)
\* files the user picks or drops in one gesture
MaxPicked == 2
\* composeVideos calls the App makes in one session
MaxAppJobs == 2
\* the timeline positions the user touches: remove, move up, move down
MaxTouched == 1
\* clips removed or moved in one session
MaxGestures == 2

\* Array.prototype.slice(0, end) applied to a list of k elements: its length
Slice0(k, end) ==
  IF end >= 0 THEN Min(k, end) ELSE Max(k + end, 0)

\* maxFiles of the VideoUploader that the step renders: the default 10 on
\* the upload step, 10 - clips.length on the arrange step
MaxFiles ==
  IF step = "upload" THEN ClipLimit ELSE ClipLimit - Len(clips)

\* the clip objects handleFilesSelected appends: order: prev.length + i.
\* Every clip gets an id of its own (crypto.randomUUID), so a clip is
\* identified by its position in the array.
NewClips(prev, k) ==
  [i \in 1..k |-> Len(prev) + i - 1]

\* setClips(prev => [...prev, ...newClips.map(...)]); setStep("arrange");
\* finally setIsUploading(false)
Appended(k) ==
  /\ clips' = clips \o NewClips(clips, k)
  /\ step' = "arrange"
  /\ isUploading' = FALSE
  /\ selection' = -1

\* handleDrop / handleFileInput: onFilesSelected(files.slice(0, maxFiles)),
\* then handleFilesSelected up to its first await; with no file left after
\* the slice the handler has no await and runs to its end.  The uploader
\* ignores pointer events while isUploading.
handleFilesSelected(k) ==
  /\ step \in {"upload", "arrange"}
  /\ ~isUploading
  /\ k >= 1
  /\ IF Slice0(k, MaxFiles) = 0
       THEN Appended(0)
       ELSE /\ isUploading' = TRUE
            /\ selection' = Slice0(k, MaxFiles)
            /\ UNCHANGED <<step, clips>>
  /\ UNCHANGED <<engineVars, callVars, calcVars, processingStatus, gestures,
                 jobs, passed>>

\* every file passed validation and its metadata and thumbnail were read
FilesRead ==
  /\ isUploading
  /\ selection >= 1
  /\ Appended(selection)
  /\ UNCHANGED <<engineVars, callVars, calcVars, processingStatus, gestures,
                 jobs, passed>>

\* a validation or a read threw: setError, finally setIsUploading(false)
FilesRejected ==
  /\ isUploading
  /\ selection >= 1
  /\ isUploading' = FALSE
  /\ selection' = -1
  /\ UNCHANGED <<engineVars, callVars, calcVars, step, clips, processingStatus,
                 gestures, jobs, passed>>

\* prev.filter(c => c.id !== clipId), clipId the id of the clip at index
WithoutClip(s, index) ==
  [i \in 1..(Len(s) - 1) |-> IF i <= index THEN s[i] ELSE s[i + 1]]

\* onRemove(clip.id) of the clip shown at position index (0-based)
handleRemoveClip(index) ==
  /\ step = "arrange"
  /\ index < Len(clips)
  /\ gestures < MaxGestures
  /\ clips' = WithoutClip(clips, index)
  /\ gestures' = gestures + 1
  /\ UNCHANGED <<engineVars, callVars, calcVars, step, isUploading,
                 processingStatus, selection, jobs, passed>>

\* newClips.splice(fromIndex, 1); newClips.splice(toIndex, 0, moved)
Spliced(s, fromIndex, toIndex) ==
  LET rest == WithoutClip(s, fromIndex)
  IN  [i \in 1..Len(s) |->
         IF i <= toIndex THEN rest[i]
         ELSE IF i = toIndex + 1 THEN s[fromIndex + 1]
         ELSE rest[i - 1]]

\* newClips.forEach((c, i) => (c.order = i))
Renumbered(s) ==
  [i \in 1..Len(s) |-> i - 1]

\* moveClip of the timeline, then handleReorderClips; with toIndex out of
\* range moveClip returns at once
moveClip(fromIndex, toIndex) ==
  /\ step = "arrange"
  /\ fromIndex < Len(clips)
  /\ toIndex >= 0
  /\ toIndex < Len(clips)
  /\ gestures < MaxGestures
  /\ clips' = Renumbered(Spliced(clips, fromIndex, toIndex))
  /\ gestures' = gestures + 1
  /\ UNCHANGED <<engineVars, callVars, calcVars, step, isUploading,
                 processingStatus, selection, jobs, passed>>

\* the button Voltar of the arrange step
BackToUpload ==
  /\ step = "arrange"
  /\ clips' = <<>>
  /\ step' = "upload"
  /\ UNCHANGED <<engineVars, callVars, calcVars, isUploading, processingStatus,
                 selection, gestures, jobs, passed>>

\* the button Configurar Transições, disabled unless canProceedFromArrange
ToSettings ==
  /\ step = "arrange"
  /\ Len(clips) >= 2
  /\ step' = "settings"
  /\ UNCHANGED <<engineVars, callVars, calcVars, clips, isUploading,
                 processingStatus, selection, gestures, jobs, passed>>

\* the button Voltar of the settings step
BackToArrange ==
  /\ step = "settings"
  /\ step' = "arrange"
  /\ UNCHANGED <<engineVars, callVars, calcVars, clips, isUploading,
                 processingStatus, selection, gestures, jobs, passed>>

\* Array.prototype.sort is stable: x goes behind every element that does not
\* compare greater
InsertByOrder(x, sorted) ==
  LET before == SelectSeq(sorted, LAMBDA c : c.order <= x.order)
      after == SelectSeq(sorted, LAMBDA c : c.order > x.order)
  IN  before \o <<x>> \o after

RECURSIVE SortedClips(_)
\* [...clips].sort((a, b) => a.order - b.order), each clip written as
\* [index, order] with index its position in the clips array
SortedClips(s) ==
  IF s = <<>> THEN <<>>
  ELSE InsertByOrder([index |-> Len(s) - 1, order |-> s[Len(s)]],
                     SortedClips(SubSeq(s, 1, Len(s) - 1)))

\* const files = sortedClips.map((c) => c.file), each file written as the
\* position of its clip in the clips array
FilesOf(s) ==
  [i \in 1..Len(s) |-> SortedClips(s)[i].index]

\* the button Compor Vídeo: handleStartComposition up to await composeVideos.
handleStartComposition ==
  /\ step = "settings"
  /\ Len(clips) >= 2
  /\ Len(jobs) < MaxAppJobs
  /\ step' = "processing"
  /\ processingStatus' = "processing"
  /\ jobs' = Append(jobs, "pending")
  /\ passed' = FilesOf(clips)
  /\ UNCHANGED <<engineVars, callVars, calcVars, clips, isUploading, selection,
                 gestures>>

\* composeVideos resolved: setProcessingStatus("completed"); setStep("result")
CompositionDone(j) ==
  /\ j \in 1..Len(jobs)
  /\ jobs[j] = "pending"
  /\ jobs' = [jobs EXCEPT ![j] = "resolved"]
  /\ processingStatus' = "completed"
  /\ step' = "result"
  /\ UNCHANGED <<engineVars, callVars, calcVars, clips, isUploading, selection,
                 gestures, passed>>

\* composeVideos rejected: setProcessingStatus("error"); the step stays
CompositionFailed(j) ==
  /\ j \in 1..Len(jobs)
  /\ jobs[j] = "pending"
  /\ jobs' = [jobs EXCEPT ![j] = "rejected"]
  /\ processingStatus' = "error"
  /\ UNCHANGED <<engineVars, callVars, calcVars, step, clips, isUploading,
                 selection, gestures, passed>>

\* the button Tentar novamente, shown on the processing step after an error
TryAgain ==
  /\ step = "processing"
  /\ processingStatus = "error"
  /\ step' = "settings"
  /\ UNCHANGED <<engineVars, callVars, calcVars, clips, isUploading,
                 processingStatus, selection, gestures, jobs, passed>>

\* onReset of the ResultView, shown on the result step
handleReset ==
  /\ step = "result"
  /\ step' = "upload"
  /\ clips' = <<>>
  /\ processingStatus' = "processing"
  /\ UNCHANGED <<engineVars, callVars, calcVars, isUploading, selection, gestures,
                 jobs, passed>>

NextApp ==
  \/ \E k \in (1..MaxPicked) \cup {ClipLimit + 1} : handleFilesSelected(k)
  \/ FilesRead
  \/ FilesRejected
  \/ \E index \in 0..MaxTouched : handleRemoveClip(index)
  \/ \E fromIndex \in 0..MaxTouched :
       \E toIndex \in {fromIndex - 1, fromIndex + 1} : moveClip(fromIndex, toIndex)
  \/ BackToUpload
  \/ ToSettings
  \/ BackToArrange
  \/ handleStartComposition
  \/ \E j \in 1..MaxAppJobs : CompositionDone(j) \/ CompositionFailed(j)
  \/ TryAgain
  \/ handleReset

SpecApp ==
  Init /\ [][NextApp]_vars

(***************************************************************************)
(* Properties                                                              *)
(***************************************************************************)
Allocated ==
  calcOut.stage # "none"

\* C1 (as claimed): every allocated duration C[i] satisfies
\* 1.5 <= C[i] <= D[i], for positive original durations D.
C1_FloorAndCeiling ==
  (Allocated /\ \A k \in 1..Len(calcIn.D) : calcIn.D[k] > 0) =>
    \A k \in 1..Len(calcIn.D) :
      /\ RLe(RInt(FloorTenths), calcOut.C[k])
      /\ RLe(calcOut.C[k], RInt(calcIn.D[k]))

\* C1 (amended): every allocated duration C[i] satisfies
\* 1.5 <= C[i] <= max(D[i], 1.5); a clip shorter than the 1.5 s floor is
\* allocated the floor, which exceeds its original duration.
C1_FloorAndRaisedCeiling ==
  (Allocated /\ \A k \in 1..Len(calcIn.D) : calcIn.D[k] > 0) =>
    \A k \in 1..Len(calcIn.D) :
      /\ RLe(RInt(FloorTenths), calcOut.C[k])
      /\ RLe(calcOut.C[k], RInt(Max(calcIn.D[k], FloorTenths)))

\* a 0.5 s clip raised to the floor next to two clips cut to their
\* original durations
C1_Witness ==
  /\ Allocated
  /\ calcIn.D = <<5, 20, 100>>
  /\ calcIn.T = 600
  /\ calcOut.C = <<RInt(FloorTenths), RInt(20), RInt(100)>>

C3_OffsetsNonDecreasing ==
  (calcOut.stage = "chained" /\ Len(calcIn.D) >= 3) =>
    \A k \in 2..Len(calcOut.offsets) : calcOut.offsets[k - 1] <= calcOut.offsets[k]

\* C4: a call with zero clips or with more than 10 clips fails with an
\* input error before any work: no progress is reported, no FFmpeg object
\* is constructed or loaded, and no engine operation is invoked.
C4_InvalidInputRejectedFirst ==
  \A j \in Callers :
    (pc[j] # "idle" /\ (N(j) = 0 \/ N(j) > ClipLimit)) =>
      /\ pc[j] = "failed"
      /\ result[j].kind = "error"
      /\ result[j].message \in {"Nenhum video fornecido", "Maximo de 10 videos"}
      /\ progress[j] = <<>>
      /\ calls[j] = <<>>
      /\ created = 0
      /\ ~ffmpegLoading

C4_Witness ==
  /\ pc[1] = "failed"
  /\ N(1) = ClipLimit + 1
  /\ result[1].message = "Maximo de 10 videos"

\* the calls whose pipeline is under way
Running(j) ==
  pc[j] \in {"write", "norm", "render", "read", "delInput", "delNorm", "delOutput"}

\* the artifacts a call has written, and those it has tried to delete
Written(j) ==
  {calls[j][k].name : k \in {x \in 1..Len(calls[j]) :
      calls[j][x].op \in {"writeFile", "exec"} /\ calls[j][x].status = "ok"}}

DeleteTried(j) ==
  {calls[j][k].name : k \in {x \in 1..Len(calls[j]) : calls[j][x].op = "deleteFile"}}

\* C5: the artifact names of two concurrent jobs are disjoint, and no job
\* deletes or overwrites an artifact of the other: every artifact a running
\* job has written and not yet tried to delete is still its own.
C5_ArtifactsExclusivelyOwned ==
  /\ (Running(1) /\ Running(2)) => Written(1) \cap Written(2) = {}
  /\ \A j \in {1, 2} :
       Running(j) => \A nm \in Written(j) \ DeleteTried(j) : Fs(j)[nm].by = j

\* C6: at most one engine initialization is in progress at any time, and
\* ffmpegLoading is true while it is.
C6_OneInitialization ==
  /\ Cardinality({j \in Callers : pc[j] = "loading"}) <= 1
  /\ \A j \in Callers : pc[j] = "loading" => ffmpegLoading

\* the first initialization failed, a caller that waited for it runs the
\* second one, and the third caller waits
C6_Witness ==
  \E a, b, c \in Callers :
    /\ pc[a] = "failed" /\ calls[a] = <<EngineCall("load", NoName, "rejected")>>
    /\ pc[b] = "loading" /\ local[b].loading = 2
    /\ pc[c] = "waiting"

\* C7: on every exit path after artifacts were written, the deletion of
\* the run's temporary artifacts is attempted before the call terminates.
C7_CleanupOnEveryExit ==
  \A j \in Callers :
    (pc[j] \in {"failed", "done"} /\ Written(j) # {}) =>
      \A nm \in Written(j) : nm \in DeleteTried(j)

\* C8: when a file write, an exec or the read-back is rejected, the call
\* aborts at once: the rejected operation is the last engine operation of
\* the run, the call fails with an error instead of a Blob, and 100 is never
\* reported.
C8_FailureAborts ==
  \A j \in Callers :
    \A k \in 1..Len(calls[j]) :
      (calls[j][k].status = "rejected"
         /\ calls[j][k].op \in {"writeFile", "exec", "readFile"}) =>
        /\ k = Len(calls[j])
        /\ pc[j] = "failed"
        /\ result[j].kind = "error"
        /\ result[j].data = NoFile
        /\ \A x \in 1..Len(progress[j]) : progress[j][x].p # 100

\* the normalization of the second of three clips is rejected
C8_Witness ==
  /\ pc[1] = "failed"
  /\ N(1) = 3
  /\ calls[1][Len(calls[1])].name = NormName(1)
  /\ calls[1][Len(calls[1])].status = "rejected"

\* C9: within one run the percent values passed to onProgress never
\* decrease, the messages forwarded from loadFFmpeg included.
C9_ProgressMonotone ==
  \A j \in Callers :
    \A k \in 2..Len(progress[j]) : progress[j][k - 1].p <= progress[j][k].p

\* a finished run of 10 clips that loaded the engine itself
C9_Witness ==
  /\ pc[1] = "done"
  /\ N(1) = ClipLimit
  /\ progress[1][2].m = "Carregando motor de video..."

\* C10: a rejected deleteFile never changes the outcome: the call does not
\* fail, and when it returns it has reported 100 last and returns the Blob
\* of the data that was read back.
C10_CleanupFailureHarmless ==
  \A j \in Callers :
    (\E k \in 1..Len(calls[j]) :
        calls[j][k].op = "deleteFile" /\ calls[j][k].status = "rejected") =>
      /\ pc[j] # "failed"
      /\ result[j].kind # "error"
      /\ pc[j] = "done" =>
           /\ result[j].kind = "blob"
           /\ result[j].data = local[j].data
           /\ result[j].data.by # 0
           /\ progress[j][Len(progress[j])].p = 100

\* a run returns after the deletes of an input file and of output.mp4 were
\* rejected
C10_Witness ==
  /\ pc[1] = "done"
  /\ calls[1][Len(calls[1])].status = "rejected"
  /\ \E k \in 1..Len(calls[1]) :
       /\ calls[1][k].op = "deleteFile"
       /\ calls[1][k].name[1] = "input"
       /\ calls[1][k].status = "rejected"

\* a loadFFmpeg call of caller j terminates in this step: it returns the
\* engine (line 20, 27 or 55) or throws (out of the try of line 33)
LoadTerminates(j) ==
  /\ pc[j] \in {"idle", "waiting", "loading"}
  /\ \/ pc'[j] = "loaded"
     \/ pc[j] = "loading" /\ pc'[j] = "failed"

\* C11: when a loadFFmpeg call terminates, by returning the engine or by
\* throwing, ffmpegLoading is false; and every caller that waits on the
\* guard eventually stops waiting.
C11_GuardReleased ==
  /\ [][\A j \in Callers : LoadTerminates(j) => ~ffmpegLoading']_vars
  /\ \A j \in Callers : (pc[j] = "waiting") ~> (pc[j] # "waiting")

\* the initialization has just thrown and released the guard while another
\* caller is still in the wait loop
C11_Witness ==
  \E a, b \in Callers :
    /\ pc[a] = "failed" /\ calls[a] = <<EngineCall("load", NoName, "rejected")>>
    /\ pc[b] = "waiting"
    /\ ~ffmpegLoading
    /\ created = 1

\* the final exec of call j has been started
Composing(j) ==
  pc[j] \in {"render", "read", "delInput", "delNorm", "delOutput", "done"}

\* C12: a call with exactly one clip builds no filter graph and starts no
\* xfade exec: its final exec copies norm_0.mp4 to output.mp4, the returned
\* stream is min(C[0], D[0]) long, and a single 5 s clip with
\* target_duration 30 is allocated 5 s.
C12_SingleClipCopied ==
  \A j \in Callers :
    (N(j) = 1 /\ Composing(j)) =>
      /\ local[j].filterComplex = <<>>
      /\ \A c \in 1..Len(calls[j]) :
           /\ calls[j][c].kind # "xfade"
           /\ calls[j][c].filter = <<>>
           /\ calls[j][c].name = OutputName =>
                \/ calls[j][c].op \in {"readFile", "deleteFile"}
                \/ /\ calls[j][c].op = "exec"
                   /\ calls[j][c].kind = "copy"
                   /\ calls[j][c].inputs = <<NormName(0)>>
      /\ \E c \in 1..Len(calls[j]) :
           calls[j][c].op = "exec" /\ calls[j][c].name = OutputName
      /\ pc[j] = "done" =>
           result[j].data.t =
             ToFixed2(RMin(local[j].clipDurations[1], RInt(durations[j][1])))
      /\ (durations[j] = <<50>> /\ settings[j].target_duration = 300) =>
           local[j].clipDurations = <<RInt(50)>>

\* a single 5 s clip with target_duration 30 has been composed: 5.00 s out
C12_Witness ==
  /\ pc[1] = "done"
  /\ durations[1] = <<50>>
  /\ settings[1].target_duration = 300
  /\ local[1].clipDurations = <<RInt(50)>>
  /\ result[1].data.t = 500
  /\ \E c \in 1..Len(calls[1]) : calls[1][c].kind = "copy"

\* lines 273-275 for two clips: max(0, C[0] - t), in tenths of a second
MaxZeroC0MinusT(j) ==
  LET C0 == local[j].clipDurations[1]
      t == RInt(settings[j].transition_duration)
  IN  IF RLe(t, C0) THEN RSub(C0, t) ELSE RInt(0)

\* the graph of a call with two clips: one xfade node from [0:v] and [1:v]
\* to [outv], run by the final exec over norm_0.mp4 and norm_1.mp4
OneNodeGraph(j) ==
  LET graph == local[j].filterComplex
  IN  /\ Len(graph) = 1
      /\ graph[1].in1 = "0:v" /\ graph[1].in2 = "1:v" /\ graph[1].out = "outv"
      /\ graph[1].duration = settings[j].transition_duration
      /\ \E c \in 1..Len(calls[j]) :
           /\ calls[j][c].kind = "xfade"
           /\ calls[j][c].filter = graph
           /\ calls[j][c].inputs = <<NormName(0), NormName(1)>>

\* C13 as stated: with exactly two clips the filter graph has exactly one
\* crossfade node and the offset written in it equals max(0, C[0] - t).
C13_OffsetExact ==
  \A j \in Callers :
    (N(j) = 2 /\ Composing(j)) =>
      /\ OneNodeGraph(j)
      /\ Rat(local[j].filterComplex[1].offset, 10) = MaxZeroC0MinusT(j)

\* C13 amended: with exactly two clips the filter graph has exactly one
\* crossfade node and the offset written in it is max(0, C[0] - t) rounded
\* to two decimals, as offset.toFixed(2) prints it.
C13_TwoClipsOneNode ==
  \A j \in Callers :
    (N(j) = 2 /\ Composing(j)) =>
      /\ OneNodeGraph(j)
      /\ local[j].filterComplex[1].offset = RoundDiv(10 * MaxZeroC0MinusT(j)[1],
                                                     MaxZeroC0MinusT(j)[2])

\* a 0.5 s clip (allocated 1.5 s) followed by a 5 s clip, joined with a 2.0 s
\* transition: C[0] - t is negative and the node starts at offset 0
C13_Witness ==
  /\ pc[1] = "done"
  /\ durations[1] = <<5, 50>>
  /\ settings[1].transition_duration = 20
  /\ local[1].clipDurations[1] = RInt(15)
  /\ Len(local[1].filterComplex) = 1
  /\ local[1].filterComplex[1].offset = 0

\* the call of the worked example: clips of 10, 8 and 12 s, target 30 s,
\* transition 0.5 s
Example(j) ==
  /\ durations[j] = <<100, 80, 120>>
  /\ settings[j].target_duration = 300
  /\ settings[j].transition_duration = 5

\* C14: for durations [10, 8, 12], target_duration 30 and
\* transition_duration 0.5 the allocated durations are [10, 8, 12] and the
\* graph has two nodes, with offset 9.50 and offset 17.00.
C14_WorkedExample ==
  \A j \in Callers :
    (Example(j) /\ pc[j] \notin {"idle", "waiting", "loading", "loaded", "failed"}) =>
      /\ local[j].clipDurations = <<RInt(100), RInt(80), RInt(120)>>
      /\ Composing(j) =>
           /\ Len(local[j].filterComplex) = 2
           /\ local[j].filterComplex[1].offset = 950
           /\ local[j].filterComplex[2].offset = 1700
           /\ \E c \in 1..Len(calls[j]) :
                calls[j][c].kind = "xfade" /\ calls[j][c].filter = local[j].filterComplex

\* the worked example has been composed and returned
C14_Witness ==
  /\ pc[1] = "done"
  /\ Example(1)
  /\ local[1].clipDurations = <<RInt(100), RInt(80), RInt(120)>>
  /\ local[1].filterComplex[2].offset = 1700
  /\ result[1].kind = "blob"

\* C15 as stated: for every transition_type that is not one of the ten
\* accepted identifiers the call uses the filter name it uses for fade, and
\* every node of the graph it builds carries that name.
C15_UnknownIsFade ==
  \A j \in Callers :
    (/\ pc[j] \notin {"idle", "waiting", "loading", "loaded", "failed"}
     /\ settings[j].transition_type \notin DOMAIN TRANSITION_MAP) =>
      /\ local[j].ffTransition = TRANSITION_MAP["fade"]
      /\ \A k \in 1..Len(local[j].filterComplex) :
           local[j].filterComplex[k].transition = TRANSITION_MAP["fade"]

\* the ten accepted identifiers
Accepted ==
  {"fade", "dissolve", "wipe_left", "wipe_right", "wipe_up", "wipe_down",
   "slide_left", "slide_right", "zoom_in", "none"}

HasAllocated(j) ==
  pc[j] \notin {"idle", "waiting", "loading", "loaded"} /\ local[j].clipDurations # <<>>

\* lines 269-288 of call j have run: its graph is built
HasGraph(j) ==
  local[j].filterComplex # <<>>

C18_ClipErrorIdentifiesClip ==
  \A j \in Callers :
    \A c \in 1..Len(calls[j]) :
      /\ (calls[j][c].kind = "norm" /\ calls[j][c].status = "rejected") =>
           /\ pc[j] = "failed"
           /\ result[j].kind = "error"
           /\ result[j].clip = calls[j][c].name[2]
      /\ (calls[j][c].kind \in {"copy", "xfade"} /\ calls[j][c].status = "rejected") =>
           /\ pc[j] = "failed"
           /\ result[j].kind = "error"
           /\ result[j].clip = -1

\* the engine operations of call j before its c-th that are ok and satisfy
\* the kind and op given
OkBefore(j, c, op, kind) ==
  {b \in 1..(c - 1) :
     /\ calls[j][b].op = op
     /\ calls[j][b].kind = kind
     /\ calls[j][b].status = "ok"}

\* C19: within one call the engine operations are sequential, every input
\* file is written before the first normalization exec starts, and the
\* normalization exec of every clip has completed before the final exec
\* (copy or filter graph) starts.
C19_StageBarrier ==
  \A j \in Callers :
    \A c \in 1..Len(calls[j]) :
      /\ c < Len(calls[j]) => calls[j][c].status # "pending"
      /\ calls[j][c].kind = "norm" =>
           {calls[j][b].name : b \in OkBefore(j, c, "writeFile", "")}
             = {InputName(k, Ext(j, k)) : k \in 0..(N(j) - 1)}
      /\ calls[j][c].kind \in {"copy", "xfade"} =>
           /\ {calls[j][b].name : b \in OkBefore(j, c, "exec", "norm")}
                = {NormName(k) : k \in 0..(N(j) - 1)}
           /\ Cardinality(OkBefore(j, c, "exec", "norm")) = N(j)

\* three clips: the graph exec has just been started, after three writes
\* and three completed normalizations
C19_Witness ==
  /\ pc[1] = "render"
  /\ N(1) = 3
  /\ calls[1][Len(calls[1])].kind = "xfade"
  /\ calls[1][Len(calls[1])].status = "pending"
  /\ Cardinality(OkBefore(1, Len(calls[1]), "exec", "norm")) = 3
  /\ Cardinality(OkBefore(1, Len(calls[1]), "writeFile", "")) = 3

\* the event composeVideos reports at each stage boundary: engine
\* initialization (line 199), per-clip load (221), per-clip normalize (244),
\* graph construction (251), render (290), cleanup (305), completion (326)
StageEvents ==
  <<"Inicializando motor de video...", "Carregando video", "Normalizando video",
    "Aplicando transicoes...", "Renderizando video final...", "Finalizando...",
    "Concluido!">>

\* the positions in the progress of call j of the events of stage s
EventsOf(j, s) ==
  {e \in 1..Len(progress[j]) : progress[j][e].m = StageEvents[s]}

\* C20 as stated: a call that returned, with any clip count 1..10, has
\* reported an event for each of the seven stages, the events of a stage
\* before those of the next, no event of a stage is missing, and the
\* completion event is the last one.
C20_EveryStageReported ==
  \A j \in Callers :
    pc[j] = "done" =>
      /\ \A s \in 1..Len(StageEvents) : EventsOf(j, s) # {}
      /\ \A s \in 1..(Len(StageEvents) - 1) :
           \A e \in EventsOf(j, s), f \in EventsOf(j, s + 1) : e < f
      /\ Cardinality(EventsOf(j, 2)) = N(j)
      /\ Cardinality(EventsOf(j, 3)) = N(j)
      /\ progress[j][Len(progress[j])].m = "Concluido!"

\* C21: the allocated durations are those of the reference allocator: with
\* available = T + (n-1)*t, every C[i] is available / n when sum(D) <= 0,
\* with no clamp, and max(1.5, min(D[i] / sum(D) * available, D[i]))
\* otherwise, with nothing rescaled after the clamps.
C21_ReferenceAllocator ==
  Allocated =>
    LET n == Len(calcIn.D)
        available == calcIn.T + (n - 1) * calcIn.t
        sum == SumSeq(calcIn.D)
    IN  /\ Len(calcOut.C) = n
        /\ \A i \in 1..n :
             calcOut.C[i] =
               IF sum <= 0
               THEN Rat(available, n)
               ELSE RMax(RInt(FloorTenths),
                         RMin(Rat(calcIn.D[i] * available, sum), RInt(calcIn.D[i])))

\* three clips of unknown (zero) duration share available = 10 + 2*2.0 s
\* evenly, above what the ceiling min(.., D[i]) would leave
C21_Witness ==
  /\ Allocated
  /\ calcIn.D = <<0, 0, 0>>
  /\ calcIn.T = 100 /\ calcIn.t = 20
  /\ calcOut.C = <<Rat(140, 3), Rat(140, 3), Rat(140, 3)>>

\* the positions of the exec invocations in the log of call j
Execs(j) ==
  {c \in 1..Len(calls[j]) : calls[j][c].op = "exec"}

\* C22: a call that returned has invoked exec exactly n + 1 times: the
\* normalizations of clips 0 .. n-1, once each and in clip order, and then
\* the final composition once. No operation is invoked a second time, and
\* after a rejected operation other than a cleanup deleteFile no operation
\* follows.
C22_ExecCount ==
  \A j \in Callers :
    /\ pc[j] = "done" =>
         /\ Cardinality(Execs(j)) = N(j) + 1
         /\ \E first \in 1..Len(calls[j]) :
              /\ Execs(j) = first..(first + N(j))
              /\ \A k \in 0..(N(j) - 1) :
                   /\ calls[j][first + k].kind = "norm"
                   /\ calls[j][first + k].name = NormName(k)
              /\ calls[j][first + N(j)].kind \in {"copy", "xfade"}
              /\ calls[j][first + N(j)].name = OutputName
    /\ \A c, d \in 1..Len(calls[j]) :
         (c # d) =>
           (calls[j][c].op # calls[j][d].op \/ calls[j][c].name # calls[j][d].name)
    /\ \A c \in 1..Len(calls[j]) :
         (calls[j][c].status = "rejected" /\ calls[j][c].op # "deleteFile") =>
           (c = Len(calls[j]) /\ pc[j] = "failed")

\* three clips composed: four exec invocations
C22_Witness ==
  /\ pc[1] = "done"
  /\ N(1) = 3
  /\ Cardinality(Execs(1)) = 4
  /\ \E c \in Execs(1) : calls[1][c].kind = "xfade" /\ calls[1][c].status = "ok"

\* the stream labels of the normalized clips given to the final exec
ClipRefs ==
  {"0:v", "1:v", "2:v", "3:v", "4:v", "5:v", "6:v", "7:v", "8:v", "9:v"}

\* C23: for n >= 2 clips the graph is a chain of exactly n - 1 xfade nodes:
\* the first takes clip 0 and clip 1, node i takes the output label of node
\* i - 1 and clip i, every intermediate label is produced by one node and
\* consumed by the next node only, and only the last node produces outv.
C23_WellFormedChain ==
  \A j \in Callers :
    (N(j) >= 2 /\ Composing(j)) =>
      LET g == local[j].filterComplex
          n == N(j)
      IN  /\ Len(g) = n - 1
          /\ g[1].in1 = "0:v" /\ g[1].in2 = "1:v"
          /\ \A i \in 2..(n - 1) :
               /\ g[i].in1 = g[i - 1].out
               /\ g[i].in2 = <<"2:v", "3:v", "4:v", "5:v", "6:v", "7:v", "8:v",
                               "9:v">>[i - 1]
          /\ \A i \in 1..(n - 2) :
               /\ g[i].out \notin ClipRefs \cup {"outv"}
               /\ \A m \in 1..(n - 1) :
                    /\ (m # i) => g[m].out # g[i].out
                    /\ (g[m].in1 = g[i].out) <=> (m = i + 1)
                    /\ g[m].in2 # g[i].out
          /\ g[n - 1].out = "outv"
          /\ \A m \in 1..(n - 1) : g[m].in1 # "outv" /\ g[m].in2 # "outv"

\* ten clips composed: nine nodes, from [0:v][1:v] -> [v01] to [v8][9:v] -> [outv]
C23_Witness ==
  /\ pc[1] = "done"
  /\ N(1) = 10
  /\ Len(local[1].filterComplex) = 9
  /\ local[1].filterComplex[1].out = "v01"
  /\ local[1].filterComplex[2].in1 = "v01"
  /\ local[1].filterComplex[9].in1 = "v8"
  /\ local[1].filterComplex[9].in2 = "9:v"
  /\ local[1].filterComplex[9].out = "outv"

\* C24: a call never reorders its clips. For every index k: input_k is
\* written from the k-th file of the list, the normalization exec that
\* writes norm_k reads input_k and trims it to the k-th allocated duration,
\* which is computed from the k-th original duration, and the k-th input of
\* the graph exec is norm_k.
C24_OrderPreserved ==
  \A j \in Callers :
    LET n == N(j)
        available == settings[j].target_duration
                       + (n - 1) * settings[j].transition_duration
        sum == SumSeq(durations[j])
    IN  /\ HasAllocated(j) =>
             \A k \in 1..n :
               local[j].clipDurations[k] =
                 RMax(RInt(FloorTenths),
                      RMin(Rat(durations[j][k] * available, sum),
                           RInt(durations[j][k])))
        /\ \A c \in 1..Len(calls[j]) :
             /\ calls[j][c].kind = "norm" =>
                  \E k \in 0..(n - 1) :
                    /\ calls[j][c].name = NormName(k)
                    /\ calls[j][c].inputs = <<InputName(k, files[j][k + 1].ext)>>
                    /\ calls[j][c].t = ToFixed2(local[j].clipDurations[k + 1])
             /\ calls[j][c].kind = "xfade" =>
                  /\ Len(calls[j][c].inputs) = n
                  /\ \A k \in 0..(n - 1) : calls[j][c].inputs[k + 1] = NormName(k)
             /\ calls[j][c].kind = "copy" => calls[j][c].inputs = <<NormName(0)>>
        /\ local[j].ffmpeg # 0 =>
             \A k \in 0..(n - 1) \cap ClipIdx :
               LET input == Fs(j)[InputName(k, files[j][k + 1].ext)]
                   norm == Fs(j)[NormName(k)]
               IN  /\ input.by = j =>
                        /\ input.src = files[j][k + 1].id
                        /\ input.t = 10 * durations[j][k + 1]
                   /\ norm.by = j => norm.src = files[j][k + 1].id

\* clips of 120, 10 and 0.5 s, all normalized: norm_0, norm_1 and norm_2 hold
\* files 1, 2 and 3, trimmed to the allocation of 120, 10 and 0.5 s
C24_Witness ==
  /\ pc[1] = "render"
  /\ durations[1] = <<1200, 100, 5>>
  /\ settings[1] = DEFAULT_SETTINGS
  /\ fs[1][NormName(0)].src = 1 /\ fs[1][NormName(0)].t = 2851
  /\ fs[1][NormName(1)].src = 2 /\ fs[1][NormName(1)].t = 238
  /\ fs[1][NormName(2)].src = 3 /\ fs[1][NormName(2)].t = 50
  /\ calls[1][Len(calls[1])].inputs = <<NormName(0), NormName(1), NormName(2)>>

\* the artifacts whose deletion call j has invoked
DeleteAttempted(j) ==
  {calls[j][c].name : c \in {d \in 1..Len(calls[j]) : calls[j][d].op = "deleteFile"}}

\* C25 as stated: a call that returned has attempted the deletion of every
\* input_i, every norm_i and output.mp4, whichever of these deletions were
\* rejected.
C25_EveryDeletionAttempted ==
  \A j \in Callers :
    pc[j] = "done" =>
      DeleteAttempted(j) =
        {InputName(k, files[j][k + 1].ext) : k \in 0..(N(j) - 1)}
          \cup {NormName(k) : k \in 0..(N(j) - 1)}
          \cup {OutputName}

\* C26 (as claimed): the files that handleStartComposition passes to
\* composeVideos, the clips sorted by `order`, are in the order of the clips
\* array that the timeline shows, after any adding, removing and moving.
C26_PassedInTimelineOrder ==
  \A i \in 1..Len(passed) : passed[i] = i - 1

RunningJobs ==
  {j \in 1..Len(jobs) : jobs[j] = "pending"}

\* C27 (as claimed): the clip list never holds more than 10 clips, every
\* composeVideos call of the App gets 2 to 10 clips, and no call is made
\* while an earlier one is still running.
C27_TenClipsOneJob ==
  /\ Len(clips) <= ClipLimit
  /\ jobs # <<>> => Len(passed) \in 2..ClipLimit
  /\ Cardinality(RunningJobs) <= 1

\* the proportional share of no clip is below the floor:
\* D[i] / sum(D) * available >= 1.5 for every i, with sum(D) > 0
NoShareBelowFloor ==
  LET n == Len(calcIn.D)
      available == calcIn.T + (n - 1) * calcIn.t
      sum == SumSeq(calcIn.D)
  IN  /\ sum > 0
      /\ \A i \in 1..n : RLe(RInt(FloorTenths), Rat(calcIn.D[i] * available, sum))

\* C28: when sum(D) > 0 and no proportional share is below the 1.5 s floor,
\* sum(C) <= T + (n-1)*t, so that the composed timeline, of length
\* sum(C) - (n-1)*t, is no longer than the target duration T.
C28_NoOvershoot ==
  (Allocated /\ NoShareBelowFloor) =>
    LET n == Len(calcIn.D)
        total == RSumSeq(calcOut.C)
    IN  /\ RLe(total, RInt(calcIn.T + (n - 1) * calcIn.t))
        /\ RLe(RSub(total, RInt((n - 1) * calcIn.t)), RInt(calcIn.T))

\* three clips of 0.5 s with shares of 4.67 s each: the floor lifts every
\* clip above its ceiling D[i], to 1.5 s, and the sum 4.5 s stays below
\* available = 14 s
C28_Witness ==
  /\ Allocated
  /\ NoShareBelowFloor
  /\ calcIn.D = <<5, 5, 5>>
  /\ calcIn.T = 100 /\ calcIn.t = 20
  /\ calcOut.C = <<RInt(15), RInt(15), RInt(15)>>

\* a loadFFmpeg call of caller j returns in this step
LoadReturns(j) ==
  pc[j] \in {"idle", "waiting", "loading"} /\ pc'[j] = "loaded"

\* C29: once a loadFFmpeg call has completed successfully, ffmpegLoaded
\* stays true, no further engine is constructed or initialized, and every
\* loadFFmpeg call that returns from then on, of any caller, returns the
\* instance of that first success.
C29_SingletonKept ==
  [][ffmpegLoaded =>
       /\ ffmpegLoaded'
       /\ ffmpegInstance' = ffmpegInstance
       /\ created' = created
       /\ \A j \in Callers : pc'[j] # "loading"
       /\ \A j \in Callers :
            LoadReturns(j) => local'[j].ffmpeg = ffmpegInstance /\ calls'[j] = <<>>]_vars

\* caller a initialized the engine, and two later calls returned a's
\* instance without an initialization of their own
C29_Witness ==
  \E a, b, c \in Callers :
    /\ b # c
    /\ calls[a] = <<EngineCall("load", NoName, "ok")>>
    /\ ffmpegLoaded /\ ffmpegInstance = local[a].ffmpeg /\ ffmpegInstance # 0
    /\ created = 1
    /\ \A j \in {b, c} :
         pc[j] = "loaded" /\ calls[j] = <<>> /\ local[j].ffmpeg = ffmpegInstance

\* the positions of the operations op in the log of call j
OpsOf(j, op) ==
  {k \in 1..Len(calls[j]) : calls[j][k].op = op}

\* the positions of the progress events that report 100
Hundreds(j) ==
  {k \in 1..Len(progress[j]) : progress[j][k].p = 100}

\* C30: on a successful run output.mp4 is read back before any temporary
\* artifact is deleted; 100 is reported exactly once, as the last progress
\* event and after every cleanup attempt has settled; and the returned Blob
\* holds the bytes that were read back.
C30_ReadCleanReport ==
  \A j \in Callers :
    LET cs == calls[j]
        reads == OpsOf(j, "readFile")
        dels == OpsOf(j, "deleteFile")
    IN  /\ dels # {} =>
             \E r \in reads :
               /\ cs[r].name = OutputName /\ cs[r].status = "ok"
               /\ \A d \in dels : r < d
               /\ local[j].data # NoFile
        /\ Hundreds(j) # {} =>
             /\ pc[j] = "done"
             /\ \A d \in dels : cs[d].status # "pending"
             /\ cs[Len(cs)].op = "deleteFile" /\ cs[Len(cs)].name = OutputName
        /\ pc[j] = "done" =>
             /\ Hundreds(j) = {Len(progress[j])}
             /\ result[j].kind = "blob"
             /\ result[j].data = local[j].data
             /\ result[j].data # NoFile

\* three clips, every deletion succeeded: seven deleteFile calls follow the
\* read-back, the file system is empty again and the Blob still holds the
\* composed stream
C30_Witness ==
  /\ pc[1] = "done"
  /\ N(1) = 3
  /\ Cardinality(OpsOf(1, "deleteFile")) = 7
  /\ \A d \in OpsOf(1, "deleteFile") : calls[1][d].status = "ok"
  /\ ~Present(1, OutputName)
  /\ result[1].kind = "blob" /\ result[1].data.t > 0
  /\ Hundreds(1) = {Len(progress[1])}

====
